---- MODULE Spec2Model ----
(***************************************************************************)
(* Model of src/main.py: one pass of check_for_new_packages over an IMAP   *)
(* inbox, repeated by an external scheduler.  The mail server, the browser *)
(* and the process environment are the environment of the model: every     *)
(* call into them returns or raises one of the outcomes the libraries can  *)
(* produce.                                                                *)
(***************************************************************************)
EXTENDS Integers, Sequences, FiniteSets, TLC

(* ------------------------------ bounds -------------------------------- *)
NMsgs == 2          \* messages in the inbox
MaxRuns == 2        \* invocations of the program

Msgs == 1..NMsgs

(* ------------------------- process environment ------------------------ *)
None == "<None>"    \* Python's None (os.getenv of an unset variable)

\* env_map of load_config, in insertion order: field name and variable read
env_map_keys ==
    << "imap_server", "email_address", "email_password", "sender_address",
       "form_url", "first_name", "last_name", "room_number" >>

EnvVar ==
    [ imap_server    |-> "IMAP_SERVER",
      email_address  |-> "EMAIL_ADDRESS",
      email_password |-> "EMAIL_APP_PASSWORD",
      sender_address |-> "SENDER_ADDRESS",
      form_url       |-> "FORM_URL",
      first_name     |-> "FIRST_NAME",
      last_name      |-> "LAST_NAME",
      room_number    |-> "ROOM_NUMBER" ]

EnvNames == { EnvVar[env_map_keys[k]] : k \in 1..Len(env_map_keys) }

\* the value a variable has when it is set to something
EnvValue ==
    [ IMAP_SERVER        |-> "imap.example.org",
      EMAIL_ADDRESS      |-> "me@example.org",
      EMAIL_APP_PASSWORD |-> "app-password",
      SENDER_ADDRESS     |-> "packages@example.org",
      FORM_URL           |-> "https://forms.example.org/package",
      FIRST_NAME         |-> "Ada",
      LAST_NAME          |-> "Lovelace",
      ROOM_NUMBER        |-> "101" ]

\* every assignment of the eight variables: unset, empty or set
AllEnvs == { e \in [EnvNames -> {None, "", "v"}] : TRUE }

EnvOf(e) == [ n \in EnvNames |-> IF e[n] = "v" THEN EnvValue[n] ELSE e[n] ]

FullEnv == [ n \in EnvNames |-> EnvValue[n] ]

\* the environments the scheduler starts a run with in the orchestration model
EnvSamples ==
    { FullEnv,
      [FullEnv EXCEPT !["FORM_URL"] = None],
      [FullEnv EXCEPT !["ROOM_NUMBER"] = ""],
      [FullEnv EXCEPT !["IMAP_SERVER"] = None, !["FIRST_NAME"] = ""] }

(* ----------------------------- load_config ---------------------------- *)
\* Python truthiness of an Optional[str]
Truthy(value) == value # None /\ value # ""

IsMissing_NoneOnly(value) == value = None

\* "if not value" of the list comprehension
IsMissing(value) == ~Truthy(value)

missing_FirstOnly(e) ==
    LET all == SelectSeq(env_map_keys, LAMBDA name : IsMissing(e[EnvVar[name]]))
    IN  IF all = << >> THEN << >> ELSE << Head(all) >>

\* missing = [name for name, value in env_map.items() if not value]
missing(e) ==
    SelectSeq(env_map_keys, LAMBDA name : IsMissing(e[EnvVar[name]]))

\* alphabetical position of each field name, for sorted()
SortRank ==
    [ email_address |-> 1, email_password |-> 2, first_name |-> 3,
      form_url |-> 4, imap_server |-> 5, last_name |-> 6,
      room_number |-> 7, sender_address |-> 8 ]

RECURSIVE Insert(_, _)
Insert(name, s) ==
    IF s = << >> THEN << name >>
    ELSE IF SortRank[name] <= SortRank[Head(s)] THEN << name >> \o s
    ELSE << Head(s) >> \o Insert(name, Tail(s))

RECURSIVE sorted(_)
sorted(s) == IF s = << >> THEN << >> ELSE Insert(Head(s), sorted(Tail(s)))

NoConfig == [ kind |-> "unbound" ]

\* the ValueError raised at lines 65-69; names is the joined list
ValueError(names) == [ kind |-> "ValueError", names |-> names ]

\* Config(...) of lines 71-80
Config(e) ==
    [ kind           |-> "Config",
      imap_server    |-> e["IMAP_SERVER"],
      email_address  |-> e["EMAIL_ADDRESS"],
      email_password |-> e["EMAIL_APP_PASSWORD"],
      sender_address |-> e["SENDER_ADDRESS"],
      form_url       |-> e["FORM_URL"],
      first_name     |-> e["FIRST_NAME"],
      last_name      |-> e["LAST_NAME"],
      room_number    |-> e["ROOM_NUMBER"] ]

load_config(e) ==
    IF missing(e) # << >> THEN ValueError(sorted(missing(e))) ELSE Config(e)

user_info_Swapped(c) ==
    [ FIRST_NAME  |-> c.last_name,
      LAST_NAME   |-> c.first_name,
      ROOM_NUMBER |-> c.room_number ]

\* Config.user_info
user_info(c) ==
    [ FIRST_NAME  |-> c.first_name,
      LAST_NAME   |-> c.last_name,
      ROOM_NUMBER |-> c.room_number ]

(* --------------------------- optional values -------------------------- *)
\* Optional[X]: Python's None, or a value
NoneVal == [ some |-> FALSE ]
Some(v) == [ some |-> TRUE, val |-> v ]

(* ------------------------------ text and HTML ------------------------- *)
\* A str is a sequence of tokens; a token is a word or one of these
Whitespace == { " ", "\n" }
BadByte == "\\xe9"          \* a byte that is not valid UTF-8 on its own
ReplChar == "\\ufffd"       \* U+FFFD, what errors="replace" puts in its place
Marker == "TRACKING NO:"

\* str.upper() of one token
UpperTok(t) ==
    CASE t = "Tracking No:" -> Marker
      [] t = "tracking no:" -> Marker
      [] t = "note" -> "NOTE"
      [] OTHER -> t

upper(text) == [ k \in 1..Len(text) |-> UpperTok(text[k]) ]

\* needle in text, for a one-token needle
Contains(text, needle) == \E k \in 1..Len(text) : text[k] = needle

RECURSIVE lstrip(_)
lstrip(text) ==
    IF text = << >> THEN << >>
    ELSE IF Head(text) \in Whitespace THEN lstrip(Tail(text))
    ELSE text

RECURSIVE rstrip(_)
rstrip(text) ==
    IF text = << >> THEN << >>
    ELSE IF text[Len(text)] \in Whitespace THEN rstrip(SubSeq(text, 1, Len(text) - 1))
    ELSE text

strip_LeftOnly(text) == lstrip(text)

\* str.strip()
strip(text) == rstrip(lstrip(text))

\* An HTML document is the sequence of sibling nodes of its body: elements
\* (tag, string) and text nodes (tag "#text")
Elem(tag, string) == [ tag |-> tag, string |-> string ]
TextNode(string) == [ tag |-> "#text", string |-> string ]

\* str(node): a text node is its text, an element its markup
Str(node) ==
    IF node.tag = "#text" THEN node.string
    ELSE << "<" >> \o << node.tag >> \o << ">" >> \o node.string \o << "</>" >>

(* -------------------------- parse_package_info ------------------------ *)
LabelMatches_CaseSensitive(text) == text # << >> /\ Contains(text, Marker)

\* the string= filter of soup.find: text and "TRACKING NO:" in text.upper()
LabelMatches(text) == text # << >> /\ Contains(upper(text), Marker)

\* soup.find("strong", string=...): position of the first match, 0 if none
tracking_tag(html) ==
    LET hits == { k \in 1..Len(html) :
                    html[k].tag = "strong" /\ LabelMatches(html[k].string) }
    IN  IF hits = {} THEN 0 ELSE CHOOSE k \in hits : \A j \in hits : k <= j

parse_package_info(email_html) ==
    LET t == tracking_tag(email_html)
        has_sibling == t # 0 /\ t < Len(email_html)
        tracking_number ==
            IF has_sibling THEN strip(Str(email_html[t + 1])) ELSE << >>
    IN  IF t = 0 THEN NoneVal
        ELSE IF tracking_number = << >> THEN NoneVal
        ELSE Some([ tracking_id |-> tracking_number ])

(* --------------------------- extract_html_body ------------------------ *)
\* the codecs of the registry that the charsets of the model name; "undefined"
\* is the codec of encodings/undefined.py, whose decode always raises
Codecs == { "utf-8", "latin-1", "undefined" }

\* bytes.decode(charset, errors): a str, or the exception raised
DecodeTok(t, charset, errors) ==
    IF t # BadByte THEN t
    ELSE IF charset = "latin-1" THEN "e-acute"
    ELSE ReplChar

HasBadByte(payload) ==
    \E k \in 1..Len(payload) : Contains(payload[k].string, BadByte)

decode(payload, charset, errors) ==
    IF payload = << >> THEN [ raised |-> "", str |-> << >> ]   \* b"": no lookup
    ELSE IF charset \notin Codecs THEN [ raised |-> "LookupError" ]
    ELSE IF charset = "undefined" THEN [ raised |-> "UnicodeError" ]
    ELSE IF charset = "utf-8" /\ errors = "strict" /\ HasBadByte(payload)
    THEN [ raised |-> "UnicodeDecodeError" ]
    ELSE [ raised |-> "",
           str |-> [ k \in 1..Len(payload) |->
                       [ tag |-> payload[k].tag,
                         string |-> [ j \in 1..Len(payload[k].string) |->
                             DecodeTok(payload[k].string[j], charset, errors) ] ] ] ]

\* what "except (LookupError, UnicodeDecodeError)" catches
DecodeCaught(exc) == exc \in { "LookupError", "UnicodeDecodeError" }

\* the try/except of lines 132-135 and 138-141; charset "" is "not declared".
\* The result of the decode that returned, or the exception that escaped.
decode_part(part) ==
    LET first == decode(part.payload,
                        IF part.charset = "" THEN "utf-8" ELSE part.charset,
                        "strict")
    IN  IF DecodeCaught(first.raised)
        THEN decode(part.payload, "utf-8", "replace")
        ELSE first

Part(content_type, charset, payload) ==
    [ content_type |-> content_type, charset |-> charset, payload |-> payload ]

\* message.walk(): the message itself, then its parts in order
walk(message) == << message.self >> \o message.parts

\* "return <decode>": the str, or the exception passed on to the caller
Return(decoded) ==
    IF decoded.raised # "" THEN decoded ELSE Some(decoded.str)

\* the Optional[str] returned, or [raised |-> exception]
extract_html_body(message) ==
    IF message.is_multipart
    THEN LET w == walk(message)
             hits == { k \in 1..Len(w) : w[k].content_type = "text/html" }
         IN  IF hits = {} THEN NoneVal
             ELSE Return(decode_part(w[CHOOSE k \in hits : \A j \in hits : k <= j]))
    ELSE IF message.self.content_type = "text/html"
         THEN Return(decode_part(message.self))
         ELSE NoneVal

\* "if not html_body": None and the empty string are both falsy
HtmlFalsy(html_body) == ~html_body.some \/ html_body.val = << >>

(* ------------------------------ the inbox ----------------------------- *)
OtherSender == "newsletter@example.org"

TrackingOf(m) == << "PKG", ToString(m) >>

ValidHtml(m) ==
    << Elem("p", << "Hello" >>),
       Elem("strong", << "Tracking No:" >>),
       TextNode(<< " " >> \o TrackingOf(m) \o << "\n" >>) >>

NoLabelHtml == << Elem("p", << "Hello" >>), Elem("strong", << "note" >>) >>

PlainText == << TextNode(<< "Hello" >>) >>

Single(part) == [ is_multipart |-> FALSE, self |-> part, parts |-> << >> ]

Multipart(parts) ==
    [ is_multipart |-> TRUE,
      self |-> Part("multipart/alternative", "", << >>),
      parts |-> parts ]

Kinds == { "valid", "no_html", "no_tracking", "bad_charset", "other_sender" }

\* the mail a message of each kind is: sender and RFC 822 content
MailOf(kind, m) ==
    CASE kind = "valid" ->
           [ from |-> EnvValue["SENDER_ADDRESS"],
             message |-> Multipart(<< Part("text/plain", "utf-8", PlainText),
                                      Part("text/html", "utf-8", ValidHtml(m)) >>) ]
      [] kind = "no_html" ->
           [ from |-> EnvValue["SENDER_ADDRESS"],
             message |-> Single(Part("text/plain", "utf-8", PlainText)) ]
      [] kind = "no_tracking" ->
           [ from |-> EnvValue["SENDER_ADDRESS"],
             message |-> Single(Part("text/html", "", NoLabelHtml)) ]
      [] kind = "bad_charset" ->
           [ from |-> EnvValue["SENDER_ADDRESS"],
             message |-> Single(Part("text/html", "undefined", ValidHtml(m))) ]
      [] OTHER ->
           [ from |-> OtherSender,
             message |-> Single(Part("text/html", "utf-8", ValidHtml(m))) ]

(* ------------------------------- state -------------------------------- *)
VARIABLES
    env,           \* os.environ as load_config reads it, this run
    kinds,         \* the inbox: what each message is
    seen,          \* the inbox: the \Seen flag of each message
    run,           \* invocations started so far
    pc,            \* where check_for_new_packages is
    config,        \* local config (or the ValueError load_config raised)
    session,       \* the connection to the mail server: none, open, closed, reset
    message_ids,   \* local message_ids
    i,             \* position of message_id in message_ids
    message,       \* local message
    html_body,     \* local html_body
    package_info,  \* local package_info
    raised,        \* the exception in flight, "" when there is none
    log,           \* records LOGGER got this run, in order: <<level, what, ref>>
    conn,          \* this run: how each connection attempt ended
    search_status, \* this run: how each search issued ended
    fetched,       \* this run: FETCH commands issued and what came back
    submissions,   \* this run: form submissions attempted, in order
    stores,        \* this run: STORE +FLAGS \Seen commands and their answers
    closes,        \* this run: CLOSE commands issued
    logouts,       \* this run: LOGOUT commands issued
    seen0,         \* the \Seen flags when this run started
    close_failed,  \* this run: mail.close() raised
    pending,       \* refs earlier runs found and skipped or did not reach
    marked_before  \* refs earlier runs marked read

locals == << config, message_ids, i, message, html_body, package_info, raised >>
history == << conn, search_status, fetched, submissions, stores, closes, logouts,
              seen0, close_failed >>
vars == << env, kinds, seen, run, pc, session, locals, log, history,
           pending, marked_before >>

\* a message reference on the wire is the decimal text of its sequence number
Ref(m) == ToString(m)
Refs == { Ref(m) : m \in Msgs }
MsgOf(ref) == CHOOSE m \in Msgs : Ref(m) = ref
Range(s) == { s[k] : k \in 1..Len(s) }

\* this run's submit_package_form call for ref returned without raising
SubmittedOK(ref) == \E k \in 1..Len(submissions) :
                        submissions[k].ref = ref /\ submissions[k].ok

\* the inbox and the records of a process that has not run yet
FreshRecords ==
    /\ seen = [m \in Msgs |-> FALSE]
    /\ session = "none"
    /\ raised = ""
    /\ log = << >>
    /\ conn = << >>
    /\ search_status = << >>
    /\ fetched = << >>
    /\ submissions = << >>
    /\ stores = << >>
    /\ closes = 0
    /\ logouts = 0
    /\ seen0 = seen
    /\ close_failed = FALSE
    /\ pending = {}
    /\ marked_before = {}

\* a process that has not run yet
Fresh ==
    /\ config = NoConfig
    /\ message_ids = << >>
    /\ i = 0
    /\ message = NoneVal
    /\ html_body = NoneVal
    /\ package_info = NoneVal
    /\ FreshRecords

Init ==
    /\ env = FullEnv
    /\ kinds \in [Msgs -> Kinds]
    /\ run = 0
    /\ pc = "idle"
    /\ Fresh

Running == { "load_config", "connect", "search", "get_message", "extract",
             "parse", "submit", "mark", "close", "logout" }

(* ------------------------- the external scheduler --------------------- *)
\* python main.py: a new process, new locals, the inbox as the last run left it
StartRun ==
    /\ pc \in { "idle", "done", "killed" }
    /\ run < MaxRuns
    /\ run' = run + 1
    /\ env' \in EnvSamples
    /\ pc' = "load_config"
    /\ config' = NoConfig
    /\ session' = "none"
    /\ message_ids' = << >>
    /\ i' = 0
    /\ message' = NoneVal
    /\ html_body' = NoneVal
    /\ package_info' = NoneVal
    /\ raised' = ""
    /\ log' = << >>
    /\ conn' = << >>
    /\ search_status' = << >>
    /\ fetched' = << >>
    /\ submissions' = << >>
    /\ stores' = << >>
    /\ closes' = 0
    /\ logouts' = 0
    /\ seen0' = seen
    /\ close_failed' = FALSE
    /\ pending' = { r \in pending \cup (Range(message_ids) \cap Refs) :
                      ~SubmittedOK(r) }
    /\ marked_before' = marked_before \cup
           { s.ref : s \in { t \in Range(stores) : t.result = "OK" } }
    /\ UNCHANGED << kinds, seen >>

\* the process is killed from outside: nothing more runs, not even the finally
Kill ==
    /\ pc \in Running
    /\ pc' = "killed"
    /\ session' = IF session = "open" THEN "reset" ELSE session
    /\ UNCHANGED << env, kinds, seen, run, locals, log, history, pending,
                    marked_before >>

(* ------------------- check_for_new_packages, step by step ------------- *)
\* lines 193-197
LoadConfig ==
    /\ pc = "load_config"
    /\ config' = load_config(env)
    /\ IF config'.kind = "ValueError"
       THEN /\ log' = Append(log, << "ERROR", "configuration", "" >>)
            /\ pc' = "done"
       ELSE /\ log' = log
            /\ pc' = "connect"
    /\ UNCHANGED << env, kinds, seen, run, session, message_ids, i, message,
                    html_body, package_info, raised, history, pending,
                    marked_before >>

\* What connect_mailbox can do: the constructor, login or select raises, or
\* all three return (select's status is not looked at)
ConnectOutcomes ==
    { [ at |-> "IMAP4_SSL", exc |-> "OSError" ],
      [ at |-> "login", exc |-> "IMAP4.error" ],
      [ at |-> "login", exc |-> "OSError" ],
      [ at |-> "select", exc |-> "IMAP4.error" ],
      [ at |-> "select", exc |-> "" ] }

\* the except clauses of lines 201-206: the record logged, "" if not caught
ConnectCaught(exc) ==
    CASE exc = "IMAP4.error" -> "authenticate"
      [] exc = "OSError" -> "connect"
      [] OTHER -> ""

\* lines 199-206 with connect_mailbox (lines 83-90)
ConnectMailbox ==
    /\ pc = "connect"
    /\ \E o \in ConnectOutcomes :
         /\ conn' = Append(conn, o.exc)
         /\ session' = IF o.at = "IMAP4_SSL" THEN "none" ELSE "open"
         /\ IF o.exc # ""
            THEN /\ log' = log \o << << "INFO", "connecting", "" >>,
                                      << "ERROR", ConnectCaught(o.exc), "" >> >>
                 /\ pc' = "done"
            ELSE /\ log' = Append(log, << "INFO", "connecting", "" >>)
                 /\ pc' = "search"
    /\ UNCHANGED << env, kinds, seen, run, locals, search_status, fetched,
                    submissions, stores, closes, logouts, seen0, close_failed,
                    pending, marked_before >>

(* --------------------------- the mail server -------------------------- *)
SearchMatches_AnyFlag(m, sender) == MailOf(kinds[m], m).from = sender

\* the search key of line 100: UNSEEN FROM "<sender_address>"
SearchMatches(m, sender) == ~seen[m] /\ MailOf(kinds[m], m).from = sender

\* the matching sequence numbers in ascending order, space separated
RECURSIVE SearchData(_, _)
SearchData(m, sender) ==
    IF m > NMsgs THEN << >>
    ELSE LET rest == SearchData(m + 1, sender)
         IN  IF ~SearchMatches(m, sender) THEN rest
             ELSE IF rest = << >> THEN << Ref(m) >>
             ELSE << Ref(m), " " >> \o rest

\* what mail.search can do: raise, answer NO with a text, answer OK
SearchResponses(sender) ==
    { [ exc |-> "IMAP4.error", status |-> "", data |-> << >> ],
      [ exc |-> "", status |-> "NO", data |-> << "SEARCH", " ", "failed" >> ],
      [ exc |-> "", status |-> "OK", data |-> SearchData(1, sender) ] }

\* bytes.split()
split(data) == SelectSeq(data, LAMBDA t : t \notin Whitespace)

SearchRejected_Never(status) == FALSE

\* line 102
SearchRejected(status) == status # "OK"

\* fetch_unread_messages: the ids returned, or the exception raised
fetch_unread_messages(resp) ==
    IF resp.exc # "" THEN [ exc |-> resp.exc, ids |-> << >> ]
    ELSE IF SearchRejected(resp.status) THEN [ exc |-> "RuntimeError", ids |-> << >> ]
    ELSE [ exc |-> "", ids |-> split(resp.data) ]

\* what mail.fetch can do for a reference: raise, answer NO, answer OK with
\* no data, answer OK with [None] (no such message), answer OK with the mail
FetchResponses(ref) ==
    { [ exc |-> "IMAP4.error", status |-> "", payload |-> << >> ],
      [ exc |-> "", status |-> "NO", payload |-> << >> ] }
    \cup IF ref \notin Refs THEN {}
         ELSE { [ exc |-> "", status |-> "OK", payload |-> << >> ],
                [ exc |-> "", status |-> "OK", payload |-> << NoneVal >> ],
                [ exc |-> "", status |-> "OK",
                  payload |-> << Some(MailOf(kinds[MsgOf(ref)], MsgOf(ref)).message) >> ] }

FetchSetsSeen_NoPeek == TRUE

\* the message_parts argument of mail.fetch at line 118
message_parts == "(BODY.PEEK[])"

\* BODY[] and RFC822 set \Seen on the message fetched, BODY.PEEK[] does not
FetchSetsSeen == message_parts \in { "(BODY[])", "(RFC822)" }

\* get_message: the message or None returned, or the exception raised
get_message(resp) ==
    IF resp.exc # "" THEN [ exc |-> resp.exc, message |-> NoneVal ]
    ELSE IF resp.status # "OK" \/ resp.payload = << >>
    THEN [ exc |-> "", message |-> NoneVal ]
    ELSE IF ~resp.payload[1].some
    THEN [ exc |-> "TypeError", message |-> NoneVal ]
    ELSE [ exc |-> "", message |-> resp.payload[1] ]

(* ------------------------------ the loop ------------------------------ *)
\* the try body ends (return, exception or end of the for): on to the finally
ToFinally(exc) ==
    /\ raised' = exc
    /\ pc' = "close"
    /\ i' = i

Continue_SameMessage ==
    /\ raised' = raised
    /\ i' = i
    /\ pc' = "get_message"

\* continue, or the end of the loop body: the next message_id, if any
Continue ==
    /\ raised' = raised
    /\ i' = i + 1
    /\ pc' = IF i + 1 > Len(message_ids) THEN "close" ELSE "get_message"

message_id_First == message_ids[1]

\* the loop variable of "for message_id in message_ids"
message_id == message_ids[i]

\* lines 209-212 with fetch_unread_messages (lines 93-108)
FetchUnreadMessages ==
    /\ pc = "search"
    /\ \E resp \in SearchResponses(config.sender_address) :
         LET r == fetch_unread_messages(resp)
         IN  /\ search_status' = Append(search_status,
                    IF resp.exc # "" THEN resp.exc ELSE resp.status)
             /\ IF r.exc # ""
                THEN /\ message_ids' = << >>
                     /\ log' = log
                     /\ ToFinally(r.exc)
                ELSE /\ message_ids' = r.ids
                     /\ raised' = raised
                     /\ IF r.ids = << >>
                        THEN /\ log' = log \o << << "INFO", "found", "" >>,
                                                 << "INFO", "no unread", "" >> >>
                             /\ i' = i
                             /\ pc' = "close"
                        ELSE /\ log' = Append(log, << "INFO", "found", "" >>)
                             /\ i' = 1
                             /\ pc' = "get_message"
    /\ UNCHANGED << env, kinds, seen, run, config, session, message, html_body,
                    package_info, conn, fetched, submissions, stores, closes,
                    logouts, seen0, close_failed, pending, marked_before >>

\* line 215-217 with get_message (lines 111-124)
GetMessage ==
    /\ pc = "get_message"
    /\ \E resp \in FetchResponses(message_id) :
         LET r == get_message(resp)
         IN  /\ fetched' = Append(fetched,
                    [ ref |-> message_id,
                      result |-> IF r.exc # "" THEN r.exc
                                 ELSE IF r.message.some THEN "message" ELSE "None" ])
             /\ seen' = IF FetchSetsSeen /\ resp.exc = "" /\ resp.status = "OK"
                           /\ message_id \in Refs
                        THEN [seen EXCEPT ![MsgOf(message_id)] = TRUE]
                        ELSE seen
             /\ IF r.exc # ""
                THEN /\ log' = log
                     /\ message' = message
                     /\ ToFinally(r.exc)
                ELSE IF ~r.message.some
                THEN /\ log' = Append(log, << "WARNING", "fetch", message_id >>)
                     /\ message' = r.message
                     /\ Continue
                ELSE /\ log' = log
                     /\ message' = r.message
                     /\ pc' = "extract"
                     /\ UNCHANGED << i, raised >>
    /\ UNCHANGED << env, kinds, run, config, session, message_ids, html_body,
                    package_info, conn,
                    search_status, submissions, stores, closes, logouts, seen0,
                    close_failed, pending, marked_before >>

\* lines 219-222
ExtractHtmlBody ==
    /\ pc = "extract"
    /\ LET h == extract_html_body(message.val)
       IN  IF "raised" \in DOMAIN h
           THEN /\ ToFinally(h.raised)
                /\ UNCHANGED << html_body, log >>
           ELSE /\ html_body' = h
                /\ IF HtmlFalsy(h)
                   THEN /\ log' = Append(log, << "WARNING", "no HTML", message_id >>)
                        /\ Continue
                   ELSE /\ log' = log
                        /\ pc' = "parse"
                        /\ UNCHANGED << i, raised >>
    /\ UNCHANGED << env, kinds, seen, run, config, session, message_ids,
                    message, package_info, history, pending, marked_before >>

\* lines 224-230
ParsePackageInfo ==
    /\ pc = "parse"
    /\ LET p == parse_package_info(html_body.val)
       IN  /\ package_info' = p
           /\ IF ~p.some
              THEN /\ log' = Append(log,
                          << "WARNING", "no tracking number", message_id >>)
                   /\ Continue
              ELSE /\ log' = log
                   /\ pc' = "submit"
                   /\ UNCHANGED << i, raised >>
    /\ UNCHANGED << env, kinds, seen, run, config, session, message_ids,
                    message, html_body, history, pending, marked_before >>

(* ------------------------------ the form ------------------------------ *)
\* submit_package_form: what the browser is told to open and to fill in
submit_package_form(url, info, user) ==
    [ url         |-> url,
      First       |-> user.FIRST_NAME,
      Last        |-> user.LAST_NAME,
      RoomNumber  |-> user.ROOM_NUMBER,
      TrackingNo  |-> info.tracking_id ]

\* the browser session ends normally, or any step of it raises
SubmitOutcomes == { "ok", "Exception" }

SubmitCaught_MarkAnyway(outcome) == FALSE

\* lines 234-236: except Exception ... continue
SubmitCaught(outcome) == outcome # "ok"

\* lines 232-236
SubmitPackageForm ==
    /\ pc = "submit"
    /\ \E outcome \in SubmitOutcomes :
         /\ submissions' = Append(submissions,
                [ ref  |-> message_id,
                  form |-> submit_package_form(config.form_url, package_info.val,
                                               user_info(config)),
                  ok   |-> outcome = "ok" ])
         /\ IF SubmitCaught(outcome)
            THEN /\ log' = log \o << << "INFO", "submitting", message_id >>,
                                      << "ERROR", "submission failed", message_id >> >>
                 /\ Continue
            ELSE /\ log' = log \o
                      << << "INFO", "submitting", message_id >> >>
                      \o IF outcome = "ok"
                         THEN << << "INFO", "submitted", message_id >> >>
                         ELSE << >>
                 /\ pc' = "mark"
                 /\ UNCHANGED << i, raised >>
    /\ UNCHANGED << env, kinds, seen, run, config, session, message_ids,
                    message, html_body, package_info, conn,
                    search_status, fetched, stores, closes, logouts, seen0,
                    close_failed, pending, marked_before >>

\* what mail.store can do: raise, answer NO, answer OK having set the flag
StoreOutcomes == { "IMAP4.error", "NO", "OK" }

StoreRaised_Caught(outcome) == FALSE

\* line 239 is in no try/except of the loop: what mail.store raises leaves it
StoreRaised(outcome) == outcome \notin { "OK", "NO" }

\* line 239
MarkSeen ==
    /\ pc = "mark"
    /\ \E outcome \in StoreOutcomes :
         /\ stores' = Append(stores, [ ref |-> message_id, result |-> outcome ])
         /\ seen' = IF outcome = "OK" /\ message_id \in Refs
                    THEN [seen EXCEPT ![MsgOf(message_id)] = TRUE]
                    ELSE seen
         /\ IF StoreRaised(outcome)
            THEN ToFinally(outcome)
            ELSE Continue
    /\ UNCHANGED << env, kinds, run, config, session, message_ids, message,
                    html_body, package_info, log, conn,
                    search_status, fetched, submissions, closes, logouts, seen0,
                    close_failed, pending, marked_before >>

(* ----------------------------- the finally ---------------------------- *)
CloseOutcomes == { "ok", "IMAP4.error" }

CloseSwallowed_Not(outcome) == FALSE

\* lines 244-245: except Exception: pass
CloseSwallowed(outcome) == TRUE

\* lines 242-245
CloseMailbox ==
    /\ pc = "close"
    /\ closes' = closes + 1
    /\ \E outcome \in CloseOutcomes :
         /\ close_failed' = (outcome # "ok")
         /\ IF outcome # "ok" /\ ~CloseSwallowed(outcome)
            THEN /\ raised' = outcome
                 /\ pc' = "done"
            ELSE /\ raised' = raised
                 /\ pc' = "logout"
    /\ UNCHANGED << env, kinds, seen, run, config, session, message_ids, i,
                    message, html_body, package_info, log, conn, search_status,
                    fetched, submissions, stores, logouts, seen0, pending,
                    marked_before >>

LogoutOutcomes == { "ok", "IMAP4.error" }

\* line 246: an exception of logout replaces the one in flight
Logout ==
    /\ pc = "logout"
    /\ logouts' = logouts + 1
    /\ \E outcome \in LogoutOutcomes :
         /\ session' = IF outcome = "ok" THEN "closed" ELSE session
         /\ raised' = IF outcome = "ok" THEN raised ELSE outcome
    /\ pc' = "done"
    /\ UNCHANGED << env, kinds, seen, run, config, message_ids, i, message,
                    html_body, package_info, log, conn, search_status, fetched,
                    submissions, stores, closes, seen0, close_failed, pending,
                    marked_before >>

Next ==
    \/ StartRun
    \/ Kill
    \/ LoadConfig
    \/ ConnectMailbox
    \/ FetchUnreadMessages
    \/ GetMessage
    \/ ExtractHtmlBody
    \/ ParsePackageInfo
    \/ SubmitPackageForm
    \/ MarkSeen
    \/ CloseMailbox
    \/ Logout

Spec == Init /\ [][Next]_vars

TypeOK ==
    /\ pc \in Running \cup { "idle", "done", "killed" }
    /\ run \in 0..MaxRuns
    /\ Range(message_ids) \subseteq Refs
    /\ i \in 0..(NMsgs + 1)

(* ======================= properties of a run ========================== *)
FetchedRefs == { fetched[k].ref : k \in 1..Len(fetched) }
StoredRefs == { stores[k].ref : k \in 1..Len(stores) }
StoredOK(ref) == \E k \in 1..Len(stores) :
                     stores[k].ref = ref /\ stores[k].result = "OK"
SubmitFailed(ref) == \E k \in 1..Len(submissions) :
                         submissions[k].ref = ref /\ ~submissions[k].ok
Ended == pc = "done"

\* C1: a run sets \Seen on a message of its search result (issues STORE
\* +FLAGS \Seen for it) only after that message's form submission has
\* returned normally, and by the time it ends has done so for every such
\* message; the flag is on only where that STORE was answered OK, so a
\* message whose fetch, extraction, parse or submission failed is unread.
C1_StoreIffSubmitted ==
    \A r \in Range(message_ids) :
        /\ r \in StoredRefs => SubmittedOK(r)
        /\ Ended => (SubmittedOK(r) => r \in StoredRefs)
        /\ seen[MsgOf(r)] <=> StoredOK(r)
        /\ ~SubmittedOK(r) => ~seen[MsgOf(r)]

\* a run has ended with one message marked read after its submission and
\* another, whose submission raised, left unread
C1_Witness ==
    /\ Ended
    /\ \E r \in Range(message_ids) : SubmittedOK(r) /\ seen[MsgOf(r)]
    /\ \E r \in Range(message_ids) : SubmitFailed(r) /\ ~seen[MsgOf(r)]

\* message number n of the search result was fetched and then skipped:
\* the fetch failed, or no HTML body or no tracking number was found, or the
\* form submission failed
Skipped(n) ==
    /\ n <= Len(fetched)
    /\ \/ fetched[n].result # "message"
       \/ (<< "WARNING", "no HTML", message_ids[n] >> \in Range(log))
       \/ (<< "WARNING", "no tracking number", message_ids[n] >> \in Range(log))
       \/ SubmitFailed(message_ids[n])

\* C2: when a run has ended, a message that was skipped for a failed fetch,
\* a missing HTML body, a missing tracking number or a failed submission is
\* followed by the fetch of the next message of the search result, however
\* the failing step failed.
C2_FailureDoesNotStopLoop ==
    Ended =>
        \A n \in 1..(Len(message_ids) - 1) : Skipped(n) => n + 1 <= Len(fetched)

\* C3: a run that opened a connection to the mail server has issued CLOSE
\* and LOGOUT on it by the time it ends.
C3_SessionAlwaysReleased ==
    (Ended /\ session # "none") => (closes = 1 /\ logouts = 1)

\* C4 as stated: from the moment the finally block is entered, neither
\* mail.close() nor mail.logout() changes the exception, if any, that the
\* run ends with.
C4_CleanupErrorsSwallowed ==
    [][(pc \in { "close", "logout" } /\ pc' # "killed") => raised' = raised]_vars

\* C4 amended: an exception raised by mail.close() is swallowed: the run
\* goes on to logout and the exception it ends with, if any, is unchanged;
\* an exception raised by mail.logout() is not caught and is what the run
\* ends with.
C4_CloseErrorSwallowed ==
    [][/\ (pc = "close" /\ pc' # "killed") =>
              (raised' = raised /\ pc' = "logout")
       /\ (pc = "logout" /\ pc' = "done") =>
              (raised' = IF session' = "closed" THEN raised ELSE "IMAP4.error")]_vars

\* mail.close() raised, and the run went on to logout and returned normally
C4_Witness ==
    Ended /\ close_failed /\ logouts = 1 /\ raised = "" /\ session = "closed"

\* the settings of this run's environment that are unset or empty
Unset == { n \in EnvNames : env[n] = None \/ env[n] = "" }

\* C5: when a required setting is unset or empty the run stops after
\* load_config: it opens no connection, issues no search, fetch or store,
\* launches no browser and leaves every \Seen flag as it was.
C5_ConfigErrorNoContact ==
    (Unset # {} /\ pc # "load_config") =>
        /\ pc \in { "done", "killed" }
        /\ conn = << >> /\ session = "none"
        /\ search_status = << >> /\ fetched = << >>
        /\ submissions = << >> /\ stores = << >>
        /\ closes = 0 /\ logouts = 0
        /\ seen = seen0

\* a run with an empty setting has ended while the inbox holds unread mail
C5_Witness ==
    /\ Ended /\ Unset # {} /\ config.kind = "ValueError"
    /\ \E m \in Msgs : ~seen[m] /\ kinds[m] = "valid"

(* ===================== load_config on its own ========================= *)
\* one call of load_config under every assignment of the eight variables
InitConfig ==
    /\ env \in { EnvOf(e) : e \in AllEnvs }
    /\ kinds = [m \in Msgs |-> "valid"]
    /\ run = 1
    /\ pc = "load_config"
    /\ Fresh

NextConfig == LoadConfig

SpecConfig == InitConfig /\ [][NextConfig]_vars

\* the fields of env_map whose variable is unset or empty
UnsetFields ==
    { name \in Range(env_map_keys) :
        env[EnvVar[name]] = None \/ env[EnvVar[name]] = "" }

\* C6: load_config raises exactly when some variable is unset or empty, the
\* names in its error are exactly the unset or empty ones, each once, and
\* otherwise it returns the Config holding the eight values.
C6_ConfigErrorNamesAllMissing ==
    pc # "load_config" =>
        /\ (config.kind = "ValueError") <=> (UnsetFields # {})
        /\ config.kind = "ValueError" =>
              /\ Range(config.names) = UnsetFields
              /\ Len(config.names) = Cardinality(UnsetFields)
        /\ config.kind # "ValueError" =>
              /\ config = Config(env)
              /\ \A name \in Range(env_map_keys) :
                     config[name] = EnvValue[EnvVar[name]]

\* load_config has raised for an environment with an unset variable, an
\* empty one and one that has a value
C6_Witness ==
    /\ pc = "done" /\ config.kind = "ValueError"
    /\ env["FORM_URL"] = None /\ env["LAST_NAME"] = ""
    /\ env["ROOM_NUMBER"] = EnvValue["ROOM_NUMBER"]
    /\ Range(config.names) = { "form_url", "last_name" }

(* ====================== fatal errors of a run ========================= *)
ConnectFailed == \E k \in 1..Len(conn) : conn[k] # ""
SearchFailed == \E k \in 1..Len(search_status) : search_status[k] # "OK"

\* C7: after a connection or authentication failure, or a search that
\* raised or was answered other than OK, the run issues no fetch, no form
\* submission and no store, changes no flag, and has connected and searched
\* at most once (no search at all after a failed connection).
C7_ConnectAndSearchFailuresFatal ==
    (ConnectFailed \/ SearchFailed) =>
        /\ fetched = << >> /\ submissions = << >> /\ stores = << >>
        /\ seen = seen0
        /\ Len(conn) = 1 /\ Len(search_status) <= 1
        /\ ConnectFailed => (search_status = << >> /\ pc \in { "done", "killed" })
        /\ SearchFailed => pc \in { "close", "logout", "done", "killed" }

\* a run whose search was answered NO has ended with unread mail in the inbox
C7_Witness ==
    /\ Ended /\ search_status = << "NO" >>
    /\ \E m \in Msgs : kinds[m] = "valid" /\ ~seen[m]

\* C8: a run that has ended on a configuration error, a connection or
\* authentication error or a search error has given LOGGER an ERROR record.
C8_FatalErrorsLogged ==
    (Ended /\ (config.kind = "ValueError" \/ ConnectFailed \/ SearchFailed)) =>
        \E e \in Range(log) : e[1] = "ERROR"

C10_MarkedNeverProcessedAgain ==
    /\ \A r \in marked_before :
           /\ r \notin Range(message_ids)
           /\ r \notin FetchedRefs
           /\ \A k \in 1..Len(submissions) : submissions[k].ref # r
    /\ \A r \in Range(message_ids) :
           /\ ~seen0[MsgOf(r)]
           /\ MailOf(kinds[MsgOf(r)], MsgOf(r)).from = config.sender_address

\* a second run has searched and fetched while the inbox holds a message
\* the first run marked read
C10_Witness ==
    /\ run = 2 /\ marked_before # {}
    /\ search_status = << "OK" >> /\ fetched # << >>

(* ========================= the fetch is a peek ======================== *)
\* C11: the step that fetches a message, whether the fetch returns the
\* message, returns nothing or raises, leaves the \Seen flag of every
\* message of the inbox as it was.
C11_FetchLeavesFlags ==
    [][(pc = "get_message" /\ pc' # "killed") =>
           (Len(fetched') = Len(fetched) + 1 /\ seen' = seen)]_vars

\* a run has fetched one message with success and has failed to fetch
\* another, and both are still unread
C11_Witness ==
    /\ \E k \in 1..Len(fetched) : fetched[k].result = "message"
    /\ \E k \in 1..Len(fetched) : fetched[k].result # "message"
    /\ \A r \in FetchedRefs : ~seen[MsgOf(r)]

(* ======================== a run without failures ====================== *)
\* the run has ended and no call into the mail server or the browser failed
AllCallsSucceeded ==
    /\ Ended /\ raised = "" /\ config.kind = "Config"
    /\ conn = << "" >> /\ search_status = << "OK" >>
    /\ \A k \in 1..Len(fetched) : fetched[k].result = "message"
    /\ \A k \in 1..Len(submissions) : submissions[k].ok
    /\ \A k \in 1..Len(stores) : stores[k].result = "OK"
    /\ ~close_failed /\ session = "closed"

\* the messages the run's search is about: unread at its start, from the sender
Unread0 == { m \in Msgs : ~seen0[m] /\ kinds[m] # "other_sender" }

SubmissionsFor(r) == { k \in 1..Len(submissions) : submissions[k].ref = r }
StoresFor(r) == { k \in 1..Len(stores) : stores[k].ref = r }
SkipsLogged(r) == { k \in 1..Len(log) : log[k][1] = "WARNING" /\ log[k][3] = r }
ErrorsLogged(r) == { k \in 1..Len(log) : log[k][1] = "ERROR" /\ log[k][3] = r }

MaxNodes == 3       \* sibling nodes in an HTML body

\* the nodes the HTML bodies are made of
NodeSamples ==
    { Elem("strong", << "Tracking No:" >>),
      Elem("strong", << "Your", " ", "tracking no:" >>),
      Elem("strong", << "note" >>),
      Elem("strong", << >>),
      Elem("b", << "TRACKING NO:" >>),
      Elem("br", << >>),
      TextNode(<< " ", "ABC", " ", "123", "\n" >>),
      TextNode(<< "XYZ789" >>),
      TextNode(<< " ", "\n" >>) }

HtmlDocs ==
    UNION { [1..n -> NodeSamples] : n \in 1..MaxNodes }

\* the loop is at "package_info = parse_package_info(html_body)" for the only
\* message of the search result, whose HTML body is any of HtmlDocs
InitParse ==
    /\ env = FullEnv
    /\ kinds = [m \in Msgs |-> "valid"]
    /\ run = 1
    /\ pc = "parse"
    /\ config = Config(FullEnv)
    /\ message_ids = << Ref(1) >>
    /\ i = 1
    /\ \E doc \in HtmlDocs :
         /\ message = Some(Single(Part("text/html", "utf-8", doc)))
         /\ html_body = Some(doc)
    /\ package_info = NoneVal
    /\ FreshRecords

NextParse == ParsePackageInfo

SpecParse == InitParse /\ [][NextParse]_vars

\* the spellings of the marker that differ only in case
MarkerForms == { "TRACKING NO:", "Tracking No:", "tracking no:" }

\* a <strong> element whose text contains the marker in any case
IsLabel(node) ==
    node.tag = "strong" /\ \E j \in 1..Len(node.string) : node.string[j] \in MarkerForms

Labels(html) == { k \in 1..Len(html) : IsLabel(html[k]) }
FirstLabel(html) == CHOOSE k \in Labels(html) : \A j \in Labels(html) : k <= j

\* what follows the first label, as a string: empty when nothing follows
Following(html) ==
    IF FirstLabel(html) < Len(html) THEN Str(html[FirstLabel(html) + 1]) ELSE << >>

NonBlank(text) == { j \in 1..Len(text) : text[j] \notin Whitespace }
Lo(S) == CHOOSE k \in S : \A j \in S : k <= j
Hi(S) == CHOOSE k \in S : \A j \in S : k >= j

MaxParts == 2       \* parts of a multipart message

\* HTML whose bytes are not all valid UTF-8
Latin1Html ==
    << Elem("strong", << "Tracking No:" >>), TextNode(<< "caf", BadByte >>) >>

\* charsets a part declares: none, two real ones, an unknown name, and the
\* registered codec that decodes nothing
Charsets == { "", "utf-8", "latin-1", "bogus", "undefined" }

PartSamples ==
    { Part(ct, cs, pl) : ct \in { "text/plain", "text/html" }, cs \in Charsets,
                         pl \in { ValidHtml(1), Latin1Html, << >> } }

MessageSamples ==
    { Single(p) : p \in PartSamples }
    \cup { Multipart(ps) : ps \in UNION { [1..n -> PartSamples] : n \in 1..MaxParts } }

\* the loop is at "html_body = extract_html_body(message)" for the only
\* message of the search result, which is any of MessageSamples
InitExtract ==
    /\ env = FullEnv
    /\ kinds = [m \in Msgs |-> "valid"]
    /\ run = 1
    /\ pc = "extract"
    /\ config = Config(FullEnv)
    /\ message_ids = << Ref(1) >>
    /\ i = 1
    /\ message \in { Some(msg) : msg \in MessageSamples }
    /\ html_body = NoneVal
    /\ package_info = NoneVal
    /\ FreshRecords

NextExtract == ExtractHtmlBody

SpecExtract == InitExtract /\ [][NextExtract]_vars

\* the parts of a message in part order; a non-multipart message is its own
\* only part
PartsOf(msg) == IF msg.is_multipart THEN msg.parts ELSE << msg.self >>
HtmlParts(msg) ==
    { k \in 1..Len(PartsOf(msg)) : PartsOf(msg)[k].content_type = "text/html" }
FirstHtmlPart(msg) == PartsOf(msg)[Lo(HtmlParts(msg))]

Declared(part) == IF part.charset = "" THEN "utf-8" ELSE part.charset

\* the payload decoded with the declared charset, or, when that decode
\* fails for whatever reason, decoded as UTF-8 with replacement
DecodedOrReplaced(part) ==
    IF decode(part.payload, Declared(part), "strict").raised = ""
    THEN decode(part.payload, Declared(part), "strict").str
    ELSE decode(part.payload, "utf-8", "replace").str

\* C14: extract_html_body raises nothing; it returns None exactly when the
\* message has no HTML part; otherwise it returns the payload of the first
\* HTML part in part order, decoded with the part's declared charset, or
\* decoded as UTF-8 with replacement when that charset is invalid or the
\* decoding fails.
C14_ExtractFirstHtmlPart ==
    pc # "extract" =>
        /\ raised = ""
        /\ html_body = IF HtmlParts(message.val) = {} THEN NoneVal
                       ELSE Some(DecodedOrReplaced(FirstHtmlPart(message.val)))

(* ==================== one message at a time, in order ================= *)
\* the steps of the loop body that follow the fetch
AfterFetch == { "extract", "parse", "submit", "mark" }

\* the fetches so far are the first references of the search result, in its
\* order; no reference was fetched twice or submitted twice
FetchedInOrder ==
    /\ Len(fetched) <= Len(message_ids)
    /\ \A k \in 1..Len(fetched) : fetched[k].ref = message_ids[k]
    /\ \A j, k \in 1..Len(fetched) : fetched[j].ref = fetched[k].ref => j = k
    /\ \A j, k \in 1..Len(submissions) :
           submissions[j].ref = submissions[k].ref => j = k

\* a step after the fetch works on the message fetched last and fetches
\* nothing; a submission or a STORE is for the message fetched last; the next
\* fetch starts only when no step for the message fetched last is left
OneAtATime ==
    /\ pc \in AfterFetch =>
           /\ Len(fetched) = i /\ fetched[i].ref = message_ids[i]
           /\ fetched[i].result = "message"
           /\ fetched' = fetched \/ pc' = "load_config"
    /\ Len(submissions') = Len(submissions) + 1 =>
           /\ pc = "submit"
           /\ submissions'[Len(submissions')].ref = fetched[Len(fetched)].ref
    /\ Len(stores') = Len(stores) + 1 =>
           /\ pc = "mark"
           /\ stores'[Len(stores')].ref = fetched[Len(fetched)].ref
    /\ Len(fetched') = Len(fetched) + 1 =>
           /\ pc = "get_message" /\ pc' \notin { "parse", "submit", "mark" }
           /\ fetched'[Len(fetched')].ref = message_ids[Len(fetched) + 1]
           /\ UNCHANGED << submissions, stores >>

\* C15: in a run the fetched references are a prefix of the search result,
\* none is fetched or submitted twice, and extract, parse, submit and
\* mark-read for a message all happen between its fetch and the next fetch.
C15_InOrderOneAtATime ==
    [] FetchedInOrder /\ [][OneAtATime]_vars

\* both messages of a search result were fetched, submitted and marked, the
\* first before the second
C15_Witness ==
    /\ Len(message_ids) = 2 /\ Len(fetched) = 2
    /\ Len(submissions) = 2 /\ Len(stores) = 2
    /\ submissions[1].ref = message_ids[1] /\ stores[1].ref = message_ids[1]
    /\ submissions[2].ref = message_ids[2] /\ stores[2].ref = message_ids[2]
    /\ message_ids[1] # message_ids[2]

(* ======================= what the form is given ======================= *)
\* the parse of the message with this reference reported "not found"
NotFoundLogged(r) == << "WARNING", "no tracking number", r >> \in Range(log)

\* C16: every form submission of a run has a tracking identifier that is
\* not empty and neither starts nor ends with whitespace, and the first
\* name, last name and room number of the environment the run loaded its
\* configuration from; no submission is for a message whose parse reported
\* "not found".
C16_SubmissionPayload ==
    \A k \in 1..Len(submissions) :
        LET form == submissions[k].form
        IN  /\ form.TrackingNo # << >>
            /\ form.TrackingNo[1] \notin Whitespace
            /\ form.TrackingNo[Len(form.TrackingNo)] \notin Whitespace
            /\ form.First = env["FIRST_NAME"]
            /\ form.Last = env["LAST_NAME"]
            /\ form.RoomNumber = env["ROOM_NUMBER"]
            /\ ~NotFoundLogged(submissions[k].ref)

\* a run has skipped a message without a tracking number and submitted the
\* form for another, whose HTML has blanks around the tracking number
C16_Witness ==
    /\ Len(submissions) = 1
    /\ submissions[1].form.TrackingNo = TrackingOf(MsgOf(submissions[1].ref))
    /\ html_body = Some(ValidHtml(MsgOf(submissions[1].ref)))
    /\ submissions[1].form.First = EnvValue["FIRST_NAME"]
    /\ \E r \in FetchedRefs : NotFoundLogged(r)

(* ===================== an error of the mark-read ====================== *)
\* mail.store raised in this run
StoreHasRaised == \E k \in 1..Len(stores) : stores[k].result \notin { "OK", "NO" }

\* the references of the search result after the one the loop is at
Remaining == { message_ids[n] : n \in (i + 1)..Len(message_ids) }

\* C17: once mail.store has raised, after a submission that succeeded, the
\* loop is over: the run is in its cleanup or has ended (or was killed), the
\* error is in flight, the remaining references of the search result are
\* neither fetched nor submitted and their messages are unread; when the run
\* has ended, close and logout were each called once and an error has left
\* check_for_new_packages.
C17_StoreErrorEndsLoop ==
    StoreHasRaised =>
        /\ stores[Len(stores)].result \notin { "OK", "NO" }
        /\ stores[Len(stores)].ref = message_ids[i]
        /\ SubmittedOK(message_ids[i])
        /\ pc \in { "close", "logout", "done", "killed" }
        /\ Len(fetched) = i
        /\ \A r \in Remaining :
              /\ r \notin FetchedRefs
              /\ SubmissionsFor(r) = {} /\ StoresFor(r) = {}
              /\ ~seen[MsgOf(r)]
        /\ raised # ""
        /\ pc \in { "logout", "done" } => closes = 1
        /\ Ended => logouts = 1

\* mail.store raised for the first of two references; the run has ended
\* after close and logout, with the error, the second message unread
C17_Witness ==
    /\ Ended /\ StoreHasRaised
    /\ Len(message_ids) = 2 /\ i = 1 /\ Len(fetched) = 1
    /\ closes = 1 /\ logouts = 1 /\ session = "closed"
    /\ raised = stores[1].result
    /\ ~seen[MsgOf(message_ids[2])]

(* ============================ termination ============================= *)
\* a step of the run itself: a statement of check_for_new_packages, with
\* the external call it makes returning or raising
RunStep ==
    \/ LoadConfig
    \/ ConnectMailbox
    \/ FetchUnreadMessages
    \/ GetMessage
    \/ ExtractHtmlBody
    \/ ParsePackageInfo
    \/ SubmitPackageForm
    \/ MarkSeen
    \/ CloseMailbox
    \/ Logout

\* every external call returns or raises in finite time and the interpreter
\* goes on to the next statement; nothing forces a start or a kill
SpecFair == Spec /\ WF_vars(RunStep)

\* the try body after the search has answered
InLoop == { "get_message", "extract", "parse", "submit", "mark" }

\* C18: a run makes at most as many fetches, form submissions and STOREs as
\* its search result has references; a run that has entered the loop leaves
\* it only into the cleanup (or by being killed); and a run that is under
\* way ends (or is killed).
C18_RunTerminates ==
    /\ [](/\ Len(fetched) <= Len(message_ids)
          /\ Len(submissions) <= Len(message_ids)
          /\ Len(stores) <= Len(message_ids)
          /\ pc = "logout" => closes = 1)
    /\ [][(pc \in InLoop) => (pc' \in InLoop \cup { "close", "killed" })]_vars
    /\ (pc \in Running ~> pc \in { "done", "killed" })

\* a run over a search result of two references has ended after two
\* fetches, two submissions, two STOREs, close and logout
C18_Witness ==
    /\ Ended /\ Len(message_ids) = 2
    /\ Len(fetched) = 2 /\ Len(submissions) = 2 /\ Len(stores) = 2
    /\ closes = 1 /\ logouts = 1 /\ raised = ""

====
